---- MODULE Spec2Model ----
(***************************************************************************)
(* CallShift: the on-call assignment and authentication service            *)
(* (src/app.py), its rate limiter, its two database transactions against   *)
(* PostgreSQL (READ COMMITTED, psycopg2's implicit transactions) and the   *)
(* push of a new assignment to the Telepo provider.                        *)
(***************************************************************************)
EXTENDS Integers, Sequences, FiniteSets, TLC

(* ---------------------------------------------------------------------- *)
(* Program constants                                                      *)
(* ---------------------------------------------------------------------- *)
RATE_LIMIT == 5
RATE_PERIOD == 60

\* SQL NULL (on_call.end_time, audit_log.user_id, users.last_login)
NULL == -1

(* ---------------------------------------------------------------------- *)
(* Bounds of the model                                                    *)
(* ---------------------------------------------------------------------- *)
\* request slots: handlers that can be in flight at the same time
MaxReqs == 2
\* the clock stops here
MaxTime == 62
\* no new PIN-carrying request is issued once audit_log has this many rows
MaxAudit == 6
\* gunicorn worker processes modelled (gunicorn_config.py: cpu_count()*2+1)
NumWorkers == 2

Reqs == 1..MaxReqs
Workers == 1..NumWorkers
IPs == {"10.0.0.1", "10.0.0.2"}
\* the clock advances by about one admission window at a time, so that ages
\* just below, at and just above RATE_PERIOD occur
TickSteps == {RATE_PERIOD - 1, RATE_PERIOD, RATE_PERIOD + 1}

\* the PINs of the three users
UserPINs == {"1234", "5678", "4321"}
Divisions == {"retic_water", "surface_water"}
UserIds == 1..3

(* ---------------------------------------------------------------------- *)
(* State                                                                  *)
(* ---------------------------------------------------------------------- *)
VARIABLES
    clock,               \* time.time() / CURRENT_TIMESTAMP
    ip_request_counter,  \* per worker process: ip -> list of admitted timestamps
    users,               \* table users (committed)
    on_call,             \* table on_call (committed rows)
    on_call_id_seq,      \* the SERIAL sequence of on_call.id (not transactional)
    audit_log,           \* table audit_log (committed rows, in commit order)
    telepo,              \* provider side: last phone number received per division
    pc,                  \* per request slot: where its handler stands
    req,                 \* per request slot: the request (worker, ip, pin, arrival time)
    user,                \* per request slot: the row fetched from users
    txn,                 \* per request slot: the open ledger transaction
    resp,                \* per request slot: the response returned
    admitted,            \* history: per worker and ip, every timestamp ever admitted
    oncall_query         \* the last GET /api/oncall: its division and its response

dbVars  == <<users, on_call, on_call_id_seq, audit_log>>
reqVars == <<pc, req, user, txn, resp>>
vars == <<clock, ip_request_counter, users, on_call, on_call_id_seq, audit_log,
          telepo, pc, req, user, txn, resp, admitted, oncall_query>>

(* ---------------------------------------------------------------------- *)
(* hash_pin and the seeded / provisioned users                            *)
(* ---------------------------------------------------------------------- *)
PIN_SALT == "default_salt_value"

\* sha256((pin + salt).encode()).hexdigest(): a digest that is a function of
\* pin and salt and differs for different pins
hash_pin(pin) == <<"sha256", pin, PIN_SALT>>

\* seed_db.py's two users, and a third one provisioned through create_user,
\* who has authenticated once
SeedUsers ==
    [u \in UserIds |->
        CASE u = 1 -> [pin |-> hash_pin("1234"), phone |-> "+15551234567",
                       division |-> "retic_water", last_login |-> NULL]
          [] u = 2 -> [pin |-> hash_pin("5678"), phone |-> "+15559876543",
                       division |-> "surface_water", last_login |-> NULL]
          [] u = 3 -> [pin |-> hash_pin("4321"), phone |-> "+15550000003",
                       division |-> "retic_water", last_login |-> 0]]

AuditEntry(kind, uid, phone, division, ip) ==
    [event_type |-> kind, user_id |-> uid, phone |-> phone,
     division |-> division, ip_address |-> ip]

\* `after`: the requests that had returned when this one arrived
NoReq    == [worker |-> 0, ip |-> "", pin |-> "", time |-> NULL, after |-> {}]
NoUser   == [id |-> NULL, phone |-> "", division |-> ""]
\* `reply`: what the provider did with this request's POST
NoReply  == [kind |-> "", status |-> 0, json |-> FALSE]
NoTxn    == [time |-> NULL, targets |-> {}, closes |-> {}, row |-> NULL,
             committed |-> FALSE, failed |-> FALSE, posts |-> 0,
             reply |-> NoReply]
NoResult == [status |-> "", message |-> ""]
NoResp   == [code |-> 0, status |-> "", phone |-> "", division |-> "",
             telepo_result |-> NoResult]
\* no on_call row
NoRow    == [id |-> NULL, phone |-> "", user_id |-> NULL, division |-> "",
             start_time |-> NULL, end_time |-> NULL]
NoQuery  == [division |-> "", code |-> 0, row |-> NoRow]

\* The service processes start on a database that has been in use: the
\* third user was created and, at time 0, made themself on call for
\* retic_water; surface_water has had no assignment yet.  The rate windows
\* live in the worker processes and start empty.
Init ==
    /\ clock = 1
    /\ ip_request_counter = [w \in Workers |-> [ip \in IPs |-> <<>>]]
    /\ users = SeedUsers
    /\ on_call = {[id |-> 1, phone |-> "+15550000003", user_id |-> 3,
                   division |-> "retic_water", start_time |-> 0, end_time |-> NULL]}
    /\ on_call_id_seq = 1
    /\ audit_log = <<AuditEntry("user_created", 3, "", "retic_water", "10.0.0.1"),
                     AuditEntry("successful_auth", 3, "", "", "10.0.0.1"),
                     AuditEntry("on_call_update", 3, "+15550000003", "retic_water",
                                "10.0.0.1")>>
    /\ telepo = [d \in Divisions |-> IF d = "retic_water" THEN "+15550000003" ELSE ""]
    /\ pc = [r \in Reqs |-> "idle"]
    /\ req = [r \in Reqs |-> NoReq]
    /\ user = [r \in Reqs |-> NoUser]
    /\ txn = [r \in Reqs |-> NoTxn]
    /\ resp = [r \in Reqs |-> NoResp]
    /\ admitted = [w \in Workers |-> [ip \in IPs |-> <<>>]]
    /\ oncall_query = NoQuery

(* ---------------------------------------------------------------------- *)
(* rate_limited                                                           *)
(* ---------------------------------------------------------------------- *)
\* [t for t in ip_request_counter[ip] if current_time - t < RATE_PERIOD]
Fresh(now, t) == now - t < RATE_PERIOD

Prune(window, now) ==
    LET keep(t) == Fresh(now, t) IN SelectSeq(window, keep)

OverLimit_OffByOne(window) == Len(window) > RATE_LIMIT

\* len(ip_request_counter[ip]) >= RATE_LIMIT
OverLimit(window) == Len(window) >= RATE_LIMIT

Record_Nothing(window, now) == window

\* ip_request_counter[ip].append(current_time)
Record(window, now) == Append(window, now)

MissingPin_Never(pin) == FALSE

\* if not pin: the form field is absent or empty
MissingPin(pin) == pin = ""

Response(code, status) ==
    [code |-> code, status |-> status, phone |-> "", division |-> "",
     telepo_result |-> NoResult]

\* The decorator and the part of authenticate that runs before the first
\* database call: no I/O happens in it, so it is one step.
Arrive(r, w, ip, pin) ==
    /\ pc[r] = "idle"
    /\ \A q \in Reqs : q < r => pc[q] # "idle"
    /\ pin # "" => Len(audit_log) < MaxAudit
    /\ LET window == Prune(ip_request_counter[w][ip], clock) IN
        IF OverLimit(window)
        THEN /\ ip_request_counter' = [ip_request_counter EXCEPT ![w][ip] = window]
             /\ pc' = [pc EXCEPT ![r] = "done"]
             /\ resp' = [resp EXCEPT ![r] = Response(429, "error")]
             /\ UNCHANGED admitted
        ELSE /\ ip_request_counter' =
                    [ip_request_counter EXCEPT ![w][ip] = Record(window, clock)]
             /\ admitted' = [admitted EXCEPT ![w][ip] = Append(@, clock)]
             /\ IF MissingPin(pin)
                THEN /\ pc' = [pc EXCEPT ![r] = "done"]
                     /\ resp' = [resp EXCEPT ![r] = Response(400, "failure")]
                ELSE /\ pc' = [pc EXCEPT ![r] = "lookup"]
                     /\ resp' = [resp EXCEPT ![r] = NoResp]
    /\ req' = [req EXCEPT ![r] = [worker |-> w, ip |-> ip, pin |-> pin, time |-> clock,
                                  after |-> {q \in Reqs : pc[q] = "done"}]]
    /\ user' = [user EXCEPT ![r] = NoUser]
    /\ txn' = [txn EXCEPT ![r] = NoTxn]
    /\ UNCHANGED <<clock, oncall_query, dbVars, telepo>>

(* ---------------------------------------------------------------------- *)
(* authenticate: the lookup transaction                                   *)
(* ---------------------------------------------------------------------- *)
UsersWithPin_NoFilter(digest) == UserIds

\* SELECT id, phone, name, division FROM users WHERE pin = %s
UsersWithPin(digest) == {u \in UserIds : users[u].pin = digest}

\* cursor.fetchone(): the first row of the result, NULL when it is empty
FetchOne(ids) == IF ids = {} THEN NULL ELSE CHOOSE u \in ids : \A v \in ids : u <= v

\* The transaction of authenticate: SELECT, then either the failed_auth row,
\* or the last_login update and the successful_auth row; one commit.
AuthLookup(r) ==
    /\ pc[r] = "lookup"
    /\ LET u == FetchOne(UsersWithPin(hash_pin(req[r].pin))) IN
        IF u = NULL
        THEN /\ audit_log' = Append(audit_log,
                    AuditEntry("failed_auth", NULL, "", "", req[r].ip))
             /\ pc' = [pc EXCEPT ![r] = "done"]
             /\ resp' = [resp EXCEPT ![r] = Response(403, "failure")]
             /\ UNCHANGED <<users, user>>
        ELSE /\ users' = [users EXCEPT ![u].last_login = clock]
             /\ audit_log' = Append(audit_log,
                    AuditEntry("successful_auth", u, "", "", req[r].ip))
             /\ user' = [user EXCEPT ![r] =
                    [id |-> u, phone |-> users[u].phone, division |-> users[u].division]]
             /\ pc' = [pc EXCEPT ![r] = "assign"]
             /\ UNCHANGED resp
    /\ UNCHANGED <<clock, oncall_query, ip_request_counter, admitted, on_call, on_call_id_seq, telepo, req, txn>>

\* get_db_connection or a statement raises inside authenticate's try: nothing
\* is committed and the handler answers 500.
AuthDbError(r) ==
    /\ pc[r] = "lookup"
    /\ pc' = [pc EXCEPT ![r] = "done"]
    /\ resp' = [resp EXCEPT ![r] = Response(500, "error")]
    /\ UNCHANGED <<clock, oncall_query, ip_request_counter, admitted, dbVars, telepo, req, user, txn>>

(* ---------------------------------------------------------------------- *)
(* set_on_call_number: the ledger transaction                             *)
(* ---------------------------------------------------------------------- *)
InLedgerTxn == {"archive_wait", "commit"}

\* rows the UPDATE's WHERE clause selects: end_time IS NULL AND division = %s
OpenRows(division) ==
    {row \in on_call : row.end_time = NULL /\ row.division = division}

RowIds(rows) == {row.id : row \in rows}

\* a row another transaction has updated and not yet committed is locked
LockedByOther(id, r) ==
    \E q \in Reqs \ {r} : pc[q] \in InLedgerTxn /\ id \in txn[q].closes

StillOpen_NoRecheck(targets) == targets

\* After a lock wait READ COMMITTED re-evaluates the WHERE clause on the
\* newest version of each target row; rows committed since the statement's
\* snapshot are not seen.
StillOpen(targets) ==
    {id \in targets : \E row \in on_call : row.id = id /\ row.end_time = NULL}

\* The three statements of the transaction.  UPDATE on_call SET end_time =
\* CURRENT_TIMESTAMP WHERE end_time IS NULL AND division = %s opens the
\* transaction, whose start time is what CURRENT_TIMESTAMP returns in every
\* later statement, and waits when a target row is locked.  The two INSERTs
\* follow; the new row's id is drawn from the sequence, both rows become
\* visible to others at commit.
ArchiveCurrent(r) ==
    /\ pc[r] = "assign"
    /\ LET targets == RowIds(OpenRows(user[r].division)) IN
        IF \E id \in targets : LockedByOther(id, r)
        THEN /\ txn' = [txn EXCEPT ![r].time = clock, ![r].targets = targets]
             /\ pc' = [pc EXCEPT ![r] = "archive_wait"]
             /\ UNCHANGED on_call_id_seq
        ELSE /\ txn' = [txn EXCEPT ![r].time = clock, ![r].targets = targets,
                                   ![r].closes = targets,
                                   ![r].row = on_call_id_seq + 1]
             /\ on_call_id_seq' = on_call_id_seq + 1
             /\ pc' = [pc EXCEPT ![r] = "commit"]
    /\ UNCHANGED <<clock, oncall_query, ip_request_counter, admitted, users, on_call, audit_log,
                   telepo, req, user, resp>>

\* the UPDATE continues once the transactions holding its target rows have
\* ended, and the INSERTs follow
ArchiveResume(r) ==
    /\ pc[r] = "archive_wait"
    /\ \A id \in txn[r].targets : ~LockedByOther(id, r)
    /\ txn' = [txn EXCEPT ![r].closes = StillOpen(txn[r].targets),
                          ![r].row = on_call_id_seq + 1]
    /\ on_call_id_seq' = on_call_id_seq + 1
    /\ pc' = [pc EXCEPT ![r] = "commit"]
    /\ UNCHANGED <<clock, oncall_query, ip_request_counter, admitted, users, on_call, audit_log,
                   telepo, req, user, resp>>

Archived_KeepsOpen(rows, closes, now) == rows

\* the rows of on_call after the transaction's UPDATE took effect
Archived(rows, closes, now) ==
    {IF row.id \in closes THEN [row EXCEPT !.end_time = now] ELSE row : row \in rows}

NewOnCallRow_Closed(id, ident, now) ==
    [id |-> id, phone |-> ident.phone, user_id |-> ident.id,
     division |-> ident.division, start_time |-> now, end_time |-> now]

\* the row the INSERT adds: start_time DEFAULT CURRENT_TIMESTAMP, end_time NULL
NewOnCallRow(id, ident, now) ==
    [id |-> id, phone |-> ident.phone, user_id |-> ident.id,
     division |-> ident.division, start_time |-> now, end_time |-> NULL]

CommitOnCall_NoAudit(r) ==
    /\ pc[r] = "commit"
    /\ on_call' = Archived(on_call, txn[r].closes, txn[r].time)
                    \cup {NewOnCallRow(txn[r].row, user[r], txn[r].time)}
    /\ txn' = [txn EXCEPT ![r].committed = TRUE, ![r].targets = {}, ![r].closes = {}]
    /\ pc' = [pc EXCEPT ![r] = "push"]
    /\ UNCHANGED <<clock, oncall_query, ip_request_counter, admitted, users,
                   on_call_id_seq, audit_log, telepo, req, user, resp>>

\* conn.commit(): the three statements take effect together
CommitOnCall(r) ==
    /\ pc[r] = "commit"
    /\ on_call' = Archived(on_call, txn[r].closes, txn[r].time)
                    \cup {NewOnCallRow(txn[r].row, user[r], txn[r].time)}
    /\ audit_log' = Append(audit_log,
            AuditEntry("on_call_update", user[r].id, user[r].phone,
                       user[r].division, req[r].ip))
    /\ txn' = [txn EXCEPT ![r].committed = TRUE, ![r].targets = {}, ![r].closes = {}]
    /\ pc' = [pc EXCEPT ![r] = "push"]
    /\ UNCHANGED <<clock, oncall_query, ip_request_counter, admitted, users, on_call_id_seq, telepo,
                   req, user, resp>>

SuccessResponse_Escalates(ident, result) ==
    IF result.status = "error"
    THEN [code |-> 500, status |-> "error", phone |-> "", division |-> "",
          telepo_result |-> result]
    ELSE [code |-> 200, status |-> "success", phone |-> ident.phone,
          division |-> ident.division, telepo_result |-> result]

\* what authenticate returns after set_on_call_number has returned `result`
SuccessResponse(ident, result) ==
    [code |-> 200, status |-> "success", phone |-> ident.phone,
     division |-> ident.division, telepo_result |-> result]

\* what set_on_call_number returns from its outer except clause
DbErrorResult == [status |-> "error", message |-> "db_err"]

RolledBack_UpdateSticks(rows, closes, now) ==
    {IF row.id \in closes THEN [row EXCEPT !.end_time = now] ELSE row : row \in rows}

\* what is left of the transaction's UPDATE when it ends without a commit:
\* psycopg2 never autocommits, so the server rolls it back
RolledBack(rows, closes, now) == rows

LedgerError_ThenPush(r) ==
    /\ pc[r] \in {"assign"} \cup InLedgerTxn
    /\ txn' = [txn EXCEPT ![r].failed = TRUE, ![r].targets = {}, ![r].closes = {}]
    /\ pc' = [pc EXCEPT ![r] = "push"]
    /\ on_call' = RolledBack(on_call, txn[r].closes, txn[r].time)
    /\ UNCHANGED <<clock, oncall_query, ip_request_counter, admitted, users,
                   on_call_id_seq, audit_log, telepo, req, user, resp>>

\* get_db_connection, a statement or the commit raises inside
\* set_on_call_number: the transaction is rolled back, the function returns
\* the error as its result and authenticate goes on to its return statement.
LedgerError(r) ==
    /\ pc[r] \in {"assign"} \cup InLedgerTxn
    /\ txn' = [txn EXCEPT ![r].failed = TRUE, ![r].targets = {}, ![r].closes = {}]
    /\ pc' = [pc EXCEPT ![r] = "done"]
    /\ resp' = [resp EXCEPT ![r] = SuccessResponse(user[r], DbErrorResult)]
    /\ on_call' = RolledBack(on_call, txn[r].closes, txn[r].time)
    /\ UNCHANGED <<clock, oncall_query, ip_request_counter, admitted, users, on_call_id_seq,
                   audit_log, telepo, req, user>>

(* ---------------------------------------------------------------------- *)
(* set_on_call_number: the push to Telepo                                 *)
(* ---------------------------------------------------------------------- *)
\* what the provider does with the POST: the connection fails, or it answers
\* with a status and a body that is JSON or not
TelepoReplies ==
    {[kind |-> "transport_error", status |-> 0, json |-> FALSE]}
    \cup [kind : {"response"}, status : {200, 500}, json : BOOLEAN]

\* requests.post raises on a transport failure; response.json() raises on a
\* body that is not JSON, before the status is looked at; both end in the
\* inner except clause, whose message is the text of the exception.  A
\* non-200 status gives the fixed "API update failed"; 200 gives the body.
TelepoResult(reply) ==
    IF reply.kind = "transport_error"
    THEN [status |-> "error", message |-> "str(RequestException)"]
    ELSE IF ~reply.json
         THEN [status |-> "error", message |-> "str(JSONDecodeError)"]
         ELSE IF reply.status # 200
              THEN [status |-> "error", message |-> "API update failed"]
              ELSE [status |-> "success", message |-> "data"]

\* requests.post(api_url, json=payload, headers=headers) and the rest of
\* set_on_call_number and authenticate, which do no further I/O
PushToTelepo(r, reply) ==
    /\ pc[r] = "push"
    /\ telepo' = IF reply.kind = "response" /\ reply.status = 200
                 THEN [telepo EXCEPT ![user[r].division] = user[r].phone]
                 ELSE telepo
    /\ txn' = [txn EXCEPT ![r].posts = @ + 1, ![r].reply = reply]
    /\ pc' = [pc EXCEPT ![r] = "done"]
    /\ resp' = [resp EXCEPT ![r] = SuccessResponse(user[r], TelepoResult(reply))]
    /\ UNCHANGED <<clock, oncall_query, ip_request_counter, admitted, dbVars, req, user>>

\* the provider accepts the connection and never answers: requests.post is
\* called without a timeout, so the handler waits
TelepoStalls(r) ==
    /\ pc[r] = "push"
    /\ txn' = [txn EXCEPT ![r].posts = @ + 1,
                          ![r].reply = [kind |-> "stall", status |-> 0, json |-> FALSE]]
    /\ pc' = [pc EXCEPT ![r] = "hung"]
    /\ UNCHANGED <<clock, oncall_query, ip_request_counter, admitted, dbVars, telepo, req, user, resp>>

(* ---------------------------------------------------------------------- *)
(* get_current_oncall                                                     *)
(* ---------------------------------------------------------------------- *)
CurrentOnCall_AnyOpen(division) == OpenRows(division)

\* ORDER BY o.start_time DESC LIMIT 1: the rows the query may return
CurrentOnCall(division) ==
    {row \in OpenRows(division) :
        \A other \in OpenRows(division) : other.start_time <= row.start_time}

\* GET /api/oncall?division=...: one SELECT on a connection of its own;
\* 404 when it returns no row.  Rows with the same start_time may come in
\* either order.  The JOIN drops no row: on_call.user_id references users.id
\* and no statement of the program deletes a user.
GetCurrentOnCall(division) ==
    /\ IF CurrentOnCall(division) = {}
       THEN oncall_query' = [division |-> division, code |-> 404, row |-> NoRow]
       ELSE \E row \in CurrentOnCall(division) :
                oncall_query' = [division |-> division, code |-> 200, row |-> row]
    /\ UNCHANGED <<clock, ip_request_counter, admitted, dbVars, telepo, reqVars>>

\* get_db_connection or the SELECT raises: 500
GetCurrentOnCallDbError(division) ==
    /\ oncall_query' = [division |-> division, code |-> 500, row |-> NoRow]
    /\ UNCHANGED <<clock, ip_request_counter, admitted, dbVars, telepo, reqVars>>

(* ---------------------------------------------------------------------- *)
(* admin_update_user                                                      *)
(* ---------------------------------------------------------------------- *)
\* PATCH /admin/users/<user_id> with {"division": ...}: UPDATE users and the
\* admin_update_user audit row, committed together
AdminUpdateUser(uid, division, ip) ==
    /\ Len(audit_log) < MaxAudit
    /\ users' = [users EXCEPT ![uid].division = division]
    /\ audit_log' = Append(audit_log,
            AuditEntry("admin_update_user", uid, "", division, ip))
    /\ UNCHANGED <<clock, oncall_query, ip_request_counter, admitted, on_call,
                   on_call_id_seq, telepo, reqVars>>

(* ---------------------------------------------------------------------- *)
(* The environment                                                        *)
(* ---------------------------------------------------------------------- *)
\* time passes
Tick(d) ==
    /\ clock + d <= MaxTime
    /\ clock' = clock + d
    /\ UNCHANGED <<ip_request_counter, admitted, dbVars, telepo, reqVars, oncall_query>>

\* the response has been delivered and the slot takes the next request
Release(r) ==
    /\ pc[r] = "done"
    /\ pc' = [pc EXCEPT ![r] = "idle"]
    /\ req' = [q \in Reqs |-> IF q = r THEN NoReq
                                ELSE [req[q] EXCEPT !.after = @ \ {r}]]
    /\ user' = [user EXCEPT ![r] = NoUser]
    /\ txn' = [txn EXCEPT ![r] = NoTxn]
    /\ resp' = [resp EXCEPT ![r] = NoResp]
    /\ UNCHANGED <<clock, oncall_query, ip_request_counter, admitted, dbVars, telepo>>

\* the steps of a handler that runs with no other request in flight: its
\* UPDATE never finds a row locked
Handle(r) ==
    \/ AuthLookup(r)
    \/ AuthDbError(r)
    \/ ArchiveCurrent(r)
    \/ CommitOnCall(r)
    \/ LedgerError(r)
    \/ \E reply \in TelepoReplies : PushToTelepo(r, reply)
    \/ TelepoStalls(r)

\* the provider answers 200 with a JSON body
OkReply == [kind |-> "response", status |-> 200, json |-> TRUE]

\* Callers behind one address, served by one worker, whose requests overlap:
\* every slot carries one request; the ledger transaction may fail, the
\* provider answers.
Next ==
    \/ Tick(RATE_PERIOD)
    \/ \E r \in Reqs, pin \in UserPINs : Arrive(r, 1, "10.0.0.1", pin)
    \/ \E r \in Reqs :
            \/ AuthLookup(r)
            \/ ArchiveCurrent(r)
            \/ ArchiveResume(r)
            \/ CommitOnCall(r)
            \/ LedgerError(r)
            \/ PushToTelepo(r, OkReply)

Spec == Init /\ [][Next]_vars

\* A burst: requests from one address handled one after the other by one
\* worker, with the clock landing just before, on and after RATE_PERIOD.  The
\* PINs keyed in: none, a seeded user's, and one that belongs to nobody.
BurstPINs == {"", "1234", "0000"}

NextBurst ==
    \/ \E d \in TickSteps : Tick(d)
    \/ \E pin \in BurstPINs : Arrive(1, 1, "10.0.0.1", pin)
    \/ Handle(1)
    \/ Release(1)

SpecBurst == Init /\ [][NextBurst]_vars

\* Every handler runs in a greenlet or process of its own and goes on
\* whenever it is not waiting for the database or the provider.
FairBurst == SpecBurst /\ WF_vars(Handle(1))

\* The ledger under every operation that reaches the database: overlapping
\* authentications of one user, whose ledger transaction may fail, an
\* administrator moving that user to surface_water, and current-on-call
\* queries for the division that starts with an assignee.
NextLedger ==
    \/ Tick(RATE_PERIOD)
    \/ \E r \in Reqs : Arrive(r, 1, "10.0.0.1", "1234")
    \/ \E r \in Reqs :
            \/ AuthLookup(r)
            \/ ArchiveCurrent(r)
            \/ ArchiveResume(r)
            \/ CommitOnCall(r)
            \/ LedgerError(r)
            \/ PushToTelepo(r, OkReply)
    \/ \E d \in {"surface_water"} \ {users[1].division} :
            AdminUpdateUser(1, d, "10.0.0.2")
    \/ GetCurrentOnCall("retic_water")

SpecLedger == Init /\ [][NextLedger]_vars

\* Current-on-call queries for both divisions, which may fail, between and
\* during overlapping authentications for retic_water; surface_water has no
\* assignee.
NextQuery ==
    \/ Tick(RATE_PERIOD)
    \/ \E r \in Reqs : Arrive(r, 1, "10.0.0.1", "1234")
    \/ \E r \in Reqs :
            \/ AuthLookup(r)
            \/ ArchiveCurrent(r)
            \/ ArchiveResume(r)
            \/ CommitOnCall(r)
            \/ PushToTelepo(r, OkReply)
    \/ \E d \in Divisions : GetCurrentOnCall(d) \/ GetCurrentOnCallDbError(d)

SpecQuery == Init /\ [][NextQuery]_vars

\* gunicorn forks the workers, each with an ip_request_counter of its own,
\* and hands every connection to whichever worker accepts it: requests
\* without a PIN from one address, one after the other, to any worker.
NextWorkers ==
    \/ \E d \in TickSteps : Tick(d)
    \/ \E w \in Workers : Arrive(1, w, "10.0.0.1", "")
    \/ Release(1)

SpecWorkers == Init /\ [][NextWorkers]_vars

(* ---------------------------------------------------------------------- *)
(* Properties                                                             *)
(* ---------------------------------------------------------------------- *)
\* the division a PIN authenticates for, "" when it belongs to nobody
PinDivision(pin) ==
    LET ids == {u \in UserIds : users[u].pin = hash_pin(pin)} IN
        IF ids = {} THEN "" ELSE users[CHOOSE u \in ids : TRUE].division

\* the committed row with this id
Row(id) == CHOOSE row \in on_call : row.id = id

\* request s is an authentication for division d
AuthFor(s, d) == pc[s] # "idle" /\ PinDivision(req[s].pin) = d

\* the rows of on_call whose end_time is set
ClosedRows == {row \in on_call : row.end_time # NULL}

\* C1: in every reachable state every division has at most one on_call row
\* whose end_time is NULL, whatever the interleaving of the ledger
\* transactions of concurrent requests.
C1_AtMostOneOpenRow ==
    \A d \in Divisions : Cardinality(OpenRows(d)) <= 1

\* C2: when two authentications for one division have committed their ledger
\* transactions, the second having arrived after the first had returned, and
\* they are the division's only authentications, the first one's row has a
\* non-NULL end_time that is <= the second one's start_time, and the second
\* one's row is the division's only open row.
C2_SequentialHandOff ==
    \A q \in Reqs, r \in Reqs :
        ( /\ q \in req[r].after
          /\ txn[q].committed /\ txn[r].committed
          /\ user[q].division = user[r].division
          /\ \A s \in Reqs \ {q, r} : ~AuthFor(s, user[r].division) )
        => /\ \E first \in on_call : first.id = txn[q].row
           /\ \E second \in on_call : second.id = txn[r].row
           /\ Row(txn[q].row).end_time # NULL
           /\ Row(txn[q].row).end_time <= Row(txn[r].row).start_time
           /\ OpenRows(user[r].division) = {Row(txn[r].row)}

C2_Witness ==
    \E q \in Reqs, r \in Reqs :
        /\ q \in req[r].after
        /\ txn[q].committed /\ txn[r].committed
        /\ user[q].division = user[r].division
        /\ user[q].id # user[r].id
        /\ req[r].time > req[q].time
        /\ \A s \in Reqs \ {q, r} : ~AuthFor(s, user[r].division)

\* C3: whenever authenticate has returned its success response for user U of
\* division D, and every other authentication for D had returned before this
\* one arrived, the current-on-call query for D returns a row with U's phone
\* number and a start_time not earlier than the authentication.
C3_QueryAfterAuth ==
    \A r \in Reqs :
        ( /\ pc[r] = "done"
          /\ resp[r].code = 200 /\ resp[r].status = "success"
          /\ \A s \in Reqs \ {r} :
                AuthFor(s, user[r].division) => s \in req[r].after )
        => /\ CurrentOnCall(user[r].division) # {}
           /\ \A row \in CurrentOnCall(user[r].division) :
                /\ row.phone = users[user[r].id].phone
                /\ row.start_time >= req[r].time

\* C4: the step in which the lookup transaction of a request whose PIN digest
\* matches no user completes leaves on_call, users and the provider
\* unchanged, appends exactly one audit row, of kind failed_auth, and answers
\* 403 "failure".
C4_InvalidPinFrame ==
    [][ \A r \in Reqs :
          ( /\ pc[r] = "lookup"
            /\ \A u \in UserIds : users[u].pin # hash_pin(req[r].pin)
            /\ pc'[r] # "lookup"
            /\ resp'[r].code # 500 )
          => /\ pc'[r] = "done"
             /\ resp'[r].code = 403 /\ resp'[r].status = "failure"
             /\ on_call' = on_call /\ on_call_id_seq' = on_call_id_seq
             /\ users' = users /\ telepo' = telepo
             /\ audit_log' = Append(audit_log,
                    AuditEntry("failed_auth", NULL, "", "", req[r].ip))
             /\ user'[r] = NoUser /\ txn'[r] = NoTxn ]_vars

C4_Witness ==
    \E r \in Reqs :
        /\ pc[r] = "done" /\ resp[r].code = 403 /\ req[r].pin = "0000"
        /\ \E i \in DOMAIN audit_log : audit_log[i].event_type = "failed_auth"
        /\ on_call # {}

\* the entries of a window that are less than RATE_PERIOD old
RecentCount(window, now) ==
    Cardinality({i \in DOMAIN window : now - window[i] < RATE_PERIOD})

C6_AtMostNPerInterval ==
    \A w \in Workers, ip \in IPs :
        \A i \in DOMAIN admitted[w][ip] :
            Cardinality({j \in DOMAIN admitted[w][ip] :
                            /\ admitted[w][ip][j] >= admitted[w][ip][i]
                            /\ admitted[w][ip][j] - admitted[w][ip][i] <= RATE_PERIOD})
                <= RATE_LIMIT

\* the provider's reply is one on which set_on_call_number reports an error
PushFailed(reply) ==
    reply.kind = "transport_error" \/ reply.status # 200 \/ ~reply.json

\* C7: when the push that follows a committed ledger transaction fails
\* (transport error, non-200 status or a body that is not JSON), no table
\* changes, the row the transaction inserted is what current-on-call returns
\* for the division, and authenticate answers 200 "success" with the error as
\* telepo_result.
C7_GatewayFailureKeepsLedger ==
    [][ \A r \in Reqs :
          ( /\ pc[r] = "push" /\ pc'[r] = "done"
            /\ txn[r].committed
            /\ PushFailed(txn'[r].reply) )
          => /\ on_call' = on_call /\ audit_log' = audit_log /\ users' = users
             /\ CurrentOnCall(user[r].division)' =
                    {[id |-> txn[r].row, phone |-> user[r].phone,
                      user_id |-> user[r].id, division |-> user[r].division,
                      start_time |-> txn[r].time, end_time |-> NULL]}
             /\ resp'[r].code = 200 /\ resp'[r].status = "success"
             /\ resp'[r].phone = user[r].phone
             /\ resp'[r].telepo_result.status = "error" ]_vars

C7_Witness ==
    \E r \in Reqs :
        /\ pc[r] = "done" /\ txn[r].committed
        /\ txn[r].reply.kind = "response" /\ txn[r].reply.status = 500
        /\ resp[r].telepo_result.status = "error"
        /\ \E row \in OpenRows(user[r].division) : row.id = txn[r].row

\* C8: the close of the open rows, the new row and the on_call_update entry
\* become visible in one step, the commit, and in no other: a ledger
\* transaction that fails before its commit changes neither on_call nor
\* audit_log, and no step other than a commit changes on_call or appends an
\* on_call_update entry.
C8_AssignmentAtomic ==
    [][ /\ \A r \in Reqs :
              (~txn[r].failed /\ txn'[r].failed)
              => /\ on_call' = on_call
                 /\ audit_log' = audit_log
                 /\ \A row \in on_call' : row.id # txn[r].row
        /\ ( \/ on_call' # on_call
             \/ /\ Len(audit_log') > Len(audit_log)
                /\ audit_log'[Len(audit_log')].event_type = "on_call_update" )
           => \E r \in Reqs :
                /\ pc[r] = "commit" /\ pc'[r] = "push"
                /\ \E row \in on_call' \ on_call :
                      /\ row.id = txn[r].row /\ row.end_time = NULL
                      /\ row.user_id = user[r].id
                /\ \A old \in on_call :
                      IF old.id \in txn[r].closes
                      THEN [old EXCEPT !.end_time = txn[r].time] \in on_call'
                      ELSE old \in on_call'
                /\ Cardinality(on_call') = Cardinality(on_call) + 1
                /\ audit_log' = Append(audit_log,
                      AuditEntry("on_call_update", user[r].id, user[r].phone,
                                 user[r].division, req[r].ip)) ]_vars

C8_Witness ==
    \E r \in Reqs :
        /\ txn[r].failed /\ txn[r].row # NULL
        /\ \E row \in OpenRows(user[r].division) : txn[r].time >= row.start_time
        /\ \A row \in on_call : row.id # txn[r].row

\* C9: when the ledger transaction of a request whose PIN was verified has
\* failed, authenticate answers 500 with a status other than "success".
C9_LedgerFailureIsServerError ==
    \A r \in Reqs :
        (pc[r] = "done" /\ txn[r].failed)
        => (resp[r].code = 500 /\ resp[r].status # "success")

\* C10: every admitted request that is being handled eventually returns a
\* response, also when the provider accepts the connection and never answers.
C10_EveryRequestAnswered ==
    \A r \in Reqs : (pc[r] \in {"lookup", "assign", "archive_wait", "commit", "push"})
                        ~> (pc[r] = "done")

\* C11: a division that has an open on_call row has one after every step:
\* no authentication (committed, failed or overlapping another), no
\* current-on-call query and no admin update takes a division from Assigned
\* back to Unassigned.
C11_AssignedStaysAssigned ==
    [][ \A d \in Divisions : OpenRows(d) # {} => OpenRows(d)' # {} ]_vars

C11_Witness ==
    /\ \E row \in ClosedRows : row.division = "retic_water"
    /\ OpenRows("retic_water") # {}
    /\ \E r \in Reqs : txn[r].failed
    /\ \E i \in DOMAIN audit_log : audit_log[i].event_type = "admin_update_user"
    /\ oncall_query.code = 200

\* C12: no step removes an on_call row, and a row whose end_time is set is
\* the same row after every step (division, user id, phone, start_time and
\* end_time), also when later assignments for its division run one after
\* the other or overlap.
C12_LedgerAppendOnly ==
    [][ \A row \in on_call :
            /\ \E kept \in on_call' : kept.id = row.id
            /\ row.end_time # NULL
               => /\ row \in on_call'
                  /\ \A other \in on_call' : other.id = row.id => other = row ]_vars

C12_Witness ==
    \E q \in Reqs, r \in Reqs :
        /\ txn[q].committed /\ txn[r].committed
        /\ txn[q].time < txn[r].time
        /\ \E row \in ClosedRows :
              /\ row.end_time = txn[q].time
              /\ row.id \notin {txn[q].row, txn[r].row}
        /\ \E row \in on_call : row.id = txn[r].row /\ row.end_time = NULL

\* the admissions of address ip, by any worker, from time t to less than
\* RATE_PERIOD later
AdmittedFrom(ip, t) ==
    UNION {{<<w, j>> : j \in {k \in DOMAIN admitted[w][ip] :
                                /\ admitted[w][ip][k] >= t
                                /\ admitted[w][ip][k] - t < RATE_PERIOD}} :
           w \in Workers}

\* C13: with several worker processes, for every address the service as a
\* whole admits at most RATE_LIMIT requests within any window of length
\* RATE_PERIOD, whichever workers receive them.
C13_LimitAcrossWorkers ==
    \A ip \in IPs, w \in Workers :
        \A i \in DOMAIN admitted[w][ip] :
            Cardinality(AdmittedFrom(ip, admitted[w][ip][i])) <= RATE_LIMIT

\* C14: the step in which an admitted request without a PIN arrives answers
\* it 400 "failure" at once: the lookup is never entered, no audit entry is
\* appended, no on_call row and no user record changes, and nothing is sent
\* to the provider.
C14_MissingPinRejected ==
    [][ \A r \in Reqs :
          ( /\ pc[r] = "idle" /\ pc'[r] # "idle"
            /\ req'[r].pin = ""
            /\ resp'[r].code # 429 )
          => /\ pc'[r] = "done"
             /\ resp'[r].code = 400 /\ resp'[r].status = "failure"
             /\ audit_log' = audit_log /\ on_call' = on_call
             /\ on_call_id_seq' = on_call_id_seq /\ users' = users
             /\ telepo' = telepo
             /\ user'[r] = NoUser /\ txn'[r] = NoTxn ]_vars

C14_Witness ==
    \E r \in Reqs :
        /\ pc[r] = "done" /\ resp[r].code = 400 /\ req[r].pin = ""
        /\ txn[r].posts = 0
        /\ \E i \in DOMAIN audit_log : audit_log[i].event_type = "failed_auth"
        /\ Len(admitted[req[r].worker][req[r].ip]) > 1

\* C15: a current-on-call query that is answered (the database did not
\* fail) returns 404 exactly when the division has no row with end_time
\* NULL; otherwise it returns an open row of the division whose start_time
\* no other open row of the division exceeds; and the query changes no
\* on_call row, user record, audit entry or rate window.
C15_CurrentOnCallResult ==
    [][ (oncall_query' # oncall_query /\ oncall_query'.code # 500)
        => /\ oncall_query'.code \in {200, 404}
           /\ (oncall_query'.code = 404) <=> (OpenRows(oncall_query'.division) = {})
           /\ oncall_query'.code = 200
              => /\ oncall_query'.row \in OpenRows(oncall_query'.division)
                 /\ \A other \in OpenRows(oncall_query'.division) :
                        other.start_time <= oncall_query'.row.start_time
           /\ on_call' = on_call /\ on_call_id_seq' = on_call_id_seq
           /\ users' = users /\ audit_log' = audit_log
           /\ ip_request_counter' = ip_request_counter ]_vars

C15_Witness ==
    /\ oncall_query.code = 200
    /\ oncall_query.row \in OpenRows(oncall_query.division)
    /\ \E other \in OpenRows(oncall_query.division) :
            other.start_time < oncall_query.row.start_time
    /\ OpenRows("surface_water") = {}

\* the entries of a window that are not older than RATE_PERIOD
NotOlder(window, now) == {i \in DOMAIN window : now - window[i] <= RATE_PERIOD}

\* C16: a request arriving at time now keeps in its address's window every
\* entry that is not strictly older than now - RATE_PERIOD (an entry of age
\* exactly RATE_PERIOD is kept and counted), and it is admitted if and only
\* if fewer than RATE_LIMIT previously admitted requests of the address
\* have a timestamp t with now - t <= RATE_PERIOD.
C16_AdmissionDecision ==
    [][ \A r \in Reqs :
          (pc[r] = "idle" /\ pc'[r] # "idle")
          => LET w == req'[r].worker
                 ip == req'[r].ip
             IN /\ \A i \in NotOlder(ip_request_counter[w][ip], clock) :
                      \E j \in DOMAIN ip_request_counter'[w][ip] :
                          ip_request_counter'[w][ip][j] = ip_request_counter[w][ip][i]
                /\ (resp'[r].code # 429)
                      <=> (Cardinality(NotOlder(admitted[w][ip], clock)) < RATE_LIMIT) ]_vars

\* C17: the result of the push tells the three outcomes apart and carries
\* what the provider sent: after a transport failure it is an error result
\* no response yields; after a response with a status other than 200,
\* whatever its body, it is an error result that only a response with that
\* status and that body yields; after a 200 with a JSON body it is a
\* success result that only that response yields.
C17_GatewayOutcomes ==
    [][ \A r \in Reqs :
          (pc[r] = "push" /\ pc'[r] = "done")
          => LET reply == txn'[r].reply
                 result == resp'[r].telepo_result
             IN /\ reply.kind = "transport_error"
                   => /\ result.status = "error"
                      /\ \A other \in TelepoReplies :
                            TelepoResult(other) = result
                            => other.kind = "transport_error"
                /\ (reply.kind = "response" /\ reply.status # 200)
                   => /\ result.status = "error"
                      /\ \A other \in TelepoReplies :
                            TelepoResult(other) = result
                            => /\ other.kind = "response"
                               /\ other.status = reply.status
                               /\ other.json = reply.json
                /\ (reply.kind = "response" /\ reply.status = 200 /\ reply.json)
                   => /\ result.status = "success"
                      /\ \A other \in TelepoReplies :
                            TelepoResult(other) = result => other = reply ]_vars

\* C18: a request posts to the provider at most once, and only when its
\* ledger transaction has committed: a request answered 429, 400, 403 or
\* 500, or whose ledger transaction failed, has posted nothing, and a post
\* that failed is not repeated.
C18_PushOnceAfterCommit ==
    \A r \in Reqs :
        /\ txn[r].posts <= 1
        /\ txn[r].posts = 1 => (txn[r].committed /\ ~txn[r].failed)
        /\ txn[r].failed => txn[r].posts = 0
        /\ (pc[r] = "done" /\ resp[r].code \in {429, 400, 403, 500})
           => txn[r].posts = 0

C18_Witness ==
    \E r \in Reqs :
        /\ pc[r] = "done" /\ txn[r].posts = 1 /\ txn[r].committed
        /\ txn[r].reply.kind = "transport_error"
        /\ resp[r].code = 200

\* C19: when every provider call succeeds and every request has completed,
\* the phone number the provider last received for a division is the phone
\* number of a most recently started open row of the division, also after
\* requests for the division that overlapped.
C19_MirrorAgreesWithLedger ==
    (\A r \in Reqs : pc[r] \in {"idle", "done"})
    => \A d \in Divisions :
          CurrentOnCall(d) # {}
          => \E row \in CurrentOnCall(d) : telepo[d] = row.phone

AuditOf(kind, uid) ==
    {i \in DOMAIN audit_log :
        audit_log[i].event_type = kind /\ audit_log[i].user_id = uid}

\* C21: in every committed state each user has as many on_call rows as
\* on_call_update audit entries, every on_call_update entry of a user comes
\* after a successful_auth entry of that user, a step adds an on_call row
\* exactly when it appends the on_call_update entry of the row's user, and
\* the audit log only grows: every step keeps the entries it had, unchanged
\* and in place.
C21_LedgerMatchesAudit ==
    /\ [](\A u \in UserIds :
            /\ Cardinality({row \in on_call : row.user_id = u})
                    = Cardinality(AuditOf("on_call_update", u))
            /\ \A i \in AuditOf("on_call_update", u) :
                    \E j \in AuditOf("successful_auth", u) : j < i)
    /\ [][ /\ Len(audit_log') >= Len(audit_log)
           /\ SubSeq(audit_log', 1, Len(audit_log)) = audit_log
           /\ (on_call' \ on_call # {} /\ Cardinality(on_call') > Cardinality(on_call))
              <=> ( /\ Len(audit_log') = Len(audit_log) + 1
                    /\ audit_log'[Len(audit_log')].event_type = "on_call_update" )
           /\ Cardinality(on_call') > Cardinality(on_call)
              => \E row \in on_call' :
                    /\ \A old \in on_call : old.id # row.id
                    /\ row.user_id = audit_log'[Len(audit_log')].user_id
                    /\ row.phone = audit_log'[Len(audit_log')].phone
                    /\ row.division = audit_log'[Len(audit_log')].division ]_vars

C21_Witness ==
    /\ Cardinality({row \in on_call : row.user_id = 1}) = 2
    /\ Cardinality(AuditOf("on_call_update", 1)) = 2
    /\ \E r \in Reqs : txn[r].committed
    /\ \E i \in DOMAIN audit_log : audit_log[i].event_type = "admin_update_user"
    /\ Cardinality({row.division : row \in {x \in on_call : x.user_id = 1}}) = 2
====
